---- MODULE Spec2Model ----
(***************************************************************************)
(* A model of src/change.py: the Route 53 record-set change orchestrator   *)
(* (class AWSRoute53RecordSet and main).                                   *)
(*                                                                         *)
(* Python strings are modelled as sequences of one-character strings, so   *)
(* that str.lower() and int() are computed character by character.         *)
(* Python ints are unbounded: a parsed integer is kept as a sign and a     *)
(* sequence of decimal digits and is turned into a number only once it is  *)
(* known to lie in [0, 2147483647].                                        *)
(***************************************************************************)
EXTENDS Integers, Sequences, FiniteSets, TLC

---------------------------------------------------------------------------
(* Python values *)

\* Python's None: a one-element sequence whose element is no single
\* character, so it differs from every string.
None == <<"None">>

\* None where an object is expected (a client, a waiter, a response, the
\* outcome of a call): objects are records, and so is this None.
NoneObject == [none |-> TRUE]

\* Truthiness of an Optional[str]: `not value` holds for None and for "".
Falsy(value) == value = None \/ value = <<>>

\* The outcome of a call: a returned value or a raised exception class.
Return(v) == [ok |-> TRUE, val |-> v]
Raise(cls) == [ok |-> FALSE, exc |-> cls]

---------------------------------------------------------------------------
(* String literals of the source *)

S_CREATE == <<"C","R","E","A","T","E">>
S_DELETE == <<"D","E","L","E","T","E">>
S_UPSERT == <<"U","P","S","E","R","T">>

S_SOA == <<"S","O","A">>
S_A == <<"A">>
S_TXT == <<"T","X","T">>
S_NS == <<"N","S">>
S_CNAME == <<"C","N","A","M","E">>
S_MX == <<"M","X">>
S_PTR == <<"P","T","R">>
S_SRV == <<"S","R","V">>
S_SPF == <<"S","P","F">>
S_AAAA == <<"A","A","A","A">>

S_true == <<"t","r","u","e">>
S_1 == <<"1">>
S_yes == <<"y","e","s">>

---------------------------------------------------------------------------
(* Constants of the source *)

DEFAULT_TTL == 300
DEFAULT_WAITER_DELAY == 10
DEFAULT_WAITER_MAX_ATTEMPTS == 50
SUPPORTED_RECORD_TYPES ==
    {S_SOA, S_A, S_TXT, S_NS, S_CNAME, S_MX, S_PTR, S_SRV, S_SPF, S_AAAA}
SUPPORTED_ACTIONS == {S_CREATE, S_DELETE, S_UPSERT}
\* The upper limit of a TTL, the literal of _validate_ttl.
MAX_TTL == 2147483647

---------------------------------------------------------------------------
(* str.lower(), on the ASCII letters *)

UpperLetters == <<"A","B","C","D","E","F","G","H","I","J","K","L","M",
                  "N","O","P","Q","R","S","T","U","V","W","X","Y","Z">>
LowerLetters == <<"a","b","c","d","e","f","g","h","i","j","k","l","m",
                  "n","o","p","q","r","s","t","u","v","w","x","y","z">>

LowerChar(c) ==
    IF \E i \in 1..26 : UpperLetters[i] = c
    THEN LowerLetters[CHOOSE i \in 1..26 : UpperLetters[i] = c]
    ELSE c

Lower(s) == [i \in 1..Len(s) |-> LowerChar(s[i])]

---------------------------------------------------------------------------
(* int(str): decimal integer literals as Python's int() accepts them:      *)
(* surrounding whitespace, an optional sign, digits, single underscores    *)
(* between digits.                                                         *)

Whitespace == {" "}
DigitChars == <<"0","1","2","3","4","5","6","7","8","9">>
IsDigit(c) == \E i \in 1..10 : DigitChars[i] = c
DigitVal(c) == (CHOOSE i \in 1..10 : DigitChars[i] = c) - 1

\* str.strip() of whitespace at both ends.
Strip(s) ==
    LET keep == {i \in 1..Len(s) : s[i] \notin Whitespace}
    IN IF keep = {} THEN <<>>
       ELSE LET lo == CHOOSE i \in keep : \A j \in keep : i <= j
                hi == CHOOSE i \in keep : \A j \in keep : j <= i
            IN SubSeq(s, lo, hi)

\* Scan the body of a literal from the left. st is "start" (a digit must
\* come), "digit" (after a digit) or "under" (after an underscore).
\* Returns the digit values read, or <<-1>> when the body is malformed.
RECURSIVE ScanDigits(_, _, _)
ScanDigits(body, st, acc) ==
    IF body = <<>>
    THEN IF st = "digit" THEN acc ELSE <<-1>>
    ELSE LET c == Head(body)
         IN IF IsDigit(c)
            THEN ScanDigits(Tail(body), "digit", Append(acc, DigitVal(c)))
            ELSE IF c = "_" /\ st = "digit"
                 THEN ScanDigits(Tail(body), "under", acc)
                 ELSE <<-1>>

\* Drop leading zeros: the magnitude 0 is the empty digit sequence.
RECURSIVE DropZeros(_)
DropZeros(ds) ==
    IF ds # <<>> /\ Head(ds) = 0 THEN DropZeros(Tail(ds)) ELSE ds

\* int(s): Return([neg, mag]) or Raise("ValueError").
PyInt(s) ==
    LET t == Strip(s)
        signed == t # <<>> /\ Head(t) \in {"+", "-"}
        body == IF signed THEN Tail(t) ELSE t
        ds == ScanDigits(body, "start", <<>>)
    IN IF ds = <<-1>>
       THEN Raise("ValueError")
       ELSE Return([neg |-> signed /\ Head(t) = "-", mag |-> DropZeros(ds)])

\* The digits of a natural number, most significant first.
RECURSIVE NatDigits(_)
NatDigits(n) ==
    IF n = 0 THEN <<>> ELSE Append(NatDigits(n \div 10), n % 10)

\* A natural number as an unbounded Python int.
PyNat(n) == [neg |-> FALSE, mag |-> NatDigits(n)]

\* Comparison of digit sequences without leading zeros.
RECURSIVE LexLess(_, _)
LexLess(a, b) ==
    IF a = <<>> THEN FALSE
    ELSE IF Head(a) # Head(b) THEN Head(a) < Head(b)
    ELSE LexLess(Tail(a), Tail(b))

MagLess(a, b) ==
    Len(a) < Len(b) \/ (Len(a) = Len(b) /\ LexLess(a, b))

\* x < y on unbounded ints, for y >= 0 given as a natural number.
IntLessNat(x, n) ==
    IF x.neg THEN x.mag # <<>> \/ n > 0 ELSE MagLess(x.mag, NatDigits(n))

\* x > y on unbounded ints, for y >= 0 given as a natural number.
IntGreaterNat(x, n) == ~x.neg /\ MagLess(NatDigits(n), x.mag)

\* The number an unbounded int in [0, MAX_TTL] stands for.
RECURSIVE MagValue(_, _)
MagValue(ds, acc) ==
    IF ds = <<>> THEN acc ELSE MagValue(Tail(ds), acc * 10 + Head(ds))

IntValue(x) == MagValue(x.mag, 0)

---------------------------------------------------------------------------
(* The validators *)

\* _validate_record_type comparing without regard to letter case.
validate_record_type_AnyCase(record_type) ==
    IF Lower(record_type) \notin {Lower(t) : t \in SUPPORTED_RECORD_TYPES}
    THEN Raise("ValueError") ELSE Return(None)

validate_record_type(record_type) ==
    IF record_type \notin SUPPORTED_RECORD_TYPES
    THEN Raise("ValueError") ELSE Return(None)

validate_action(action) ==
    IF action \notin SUPPORTED_ACTIONS
    THEN Raise("ValueError") ELSE Return(None)

\* _validate_ttl taking a TTL of 0 for an unset one:
\* ttl_value = (int(ttl) if ttl else 0) or DEFAULT_TTL.
validate_ttl_ZeroIsDefault(ttl) ==
    LET parsed == IF ~Falsy(ttl) THEN PyInt(ttl) ELSE Return(PyNat(DEFAULT_TTL))
    IN IF ~parsed.ok
       THEN Raise("ValueError")
       ELSE IF IntLessNat(parsed.val, 0) \/ IntGreaterNat(parsed.val, MAX_TTL)
            THEN Raise("ValueError")
            ELSE IF parsed.val.mag = <<>>
                 THEN Return(DEFAULT_TTL)
                 ELSE Return(IntValue(parsed.val))

\* ttl_value = int(ttl) if ttl else DEFAULT_TTL; a ValueError of int() and
\* the range failure both leave as ValueError.
validate_ttl(ttl) ==
    LET parsed == IF ~Falsy(ttl) THEN PyInt(ttl) ELSE Return(PyNat(DEFAULT_TTL))
    IN IF ~parsed.ok
       THEN Raise("ValueError")
       ELSE IF IntLessNat(parsed.val, 0) \/ IntGreaterNat(parsed.val, MAX_TTL)
            THEN Raise("ValueError")
            ELSE Return(IntValue(parsed.val))

---------------------------------------------------------------------------
(* State *)

VARIABLES
    env,          \* os.environ: variable name -> string, or None when unset
    pc,           \* the statement of change() that runs next, or "exited"
    client,       \* self.client
    waiter,       \* self.waiter
    rr_skeleton,  \* self.rr_skeleton: a dict, keys "Comment" and "Changes"
    result,       \* the local `result` of change(): the remote response
    request_id,   \* the local `request_id` of change()
    calls,        \* the change_resource_record_sets calls received remotely
    polls,        \* the attempts the waiter has made
    observed,     \* the statuses the remote service reported to lookups
    slept,        \* the time the waiter has slept between lookups
    stdout,       \* what was written to sys.stdout
    stderr,       \* what change() wrote to sys.stderr
    exit_status,  \* the process exit status, None while running
    raised,       \* the class of the exception change() caught, "" if none
    arg,          \* the argument of a validator called on its own
    ret,          \* the outcome of a method called on its own
    connects,     \* the calls of _connect made
    client_calls  \* the boto3.client calls made, each with how it ended

vars == <<env, pc, client, waiter, rr_skeleton, result, request_id, calls,
          polls, observed, slept, stdout, stderr, exit_status, raised, arg, ret,
          connects, client_calls>>

K_ACTION == "INPUT_AWS_ROUTE53_RR_ACTION"
K_NAME == "INPUT_AWS_ROUTE53_RR_NAME"
K_TYPE == "INPUT_AWS_ROUTE53_RR_TYPE"
K_TTL == "INPUT_AWS_ROUTE53_RR_TTL"
K_VALUE == "INPUT_AWS_ROUTE53_RR_VALUE"
K_COMMENT == "INPUT_AWS_ROUTE53_RR_COMMENT"
K_ZONE == "INPUT_AWS_ROUTE53_HOSTED_ZONE_ID"
K_WAIT == "INPUT_AWS_ROUTE53_WAIT"

EnvKeys ==
    {K_ACTION, K_NAME, K_TYPE, K_TTL, K_VALUE, K_COMMENT, K_ZONE, K_WAIT}

\* The empty dict.
EmptyDict == [k \in {} |-> None]

\* d[key] = value on a dict.
DictSet(d, key, value) == (key :> value) @@ d

---------------------------------------------------------------------------
(* Methods of AWSRoute53RecordSet that do not touch the remote service *)

\* _get_env never raising for a missing variable.
get_env_NeverRaises(e, variable, exit_on_missing) == Return(e[variable])

get_env(e, variable, exit_on_missing) ==
    LET value == e[variable]
    IN IF Falsy(value) /\ exit_on_missing
       THEN Raise("NameError")
       ELSE Return(value)

\* _set_comment setting the key whenever the variable is set, also to "".
set_comment_WhenSet(e, skeleton) ==
    LET comment == get_env(e, K_COMMENT, FALSE).val
    IN IF comment # None
       THEN DictSet(skeleton, "Comment", comment)
       ELSE skeleton

\* _set_comment: the skeleton it leaves.
set_comment(e, skeleton) ==
    LET comment == get_env(e, K_COMMENT, FALSE).val
    IN IF ~Falsy(comment)
       THEN DictSet(skeleton, "Comment", comment)
       ELSE skeleton

\* _set_base_changes building the entry with the default TTL.
ChangeEntry_DefaultTtl(action, name, record_type, ttl, value) ==
    [Action |-> action,
     ResourceRecordSet |->
        [Name |-> name,
         Type |-> record_type,
         TTL |-> DEFAULT_TTL,
         ResourceRecords |-> << [Value |-> value] >>]]

\* The one entry of "Changes" that _set_base_changes builds.
ChangeEntry(action, name, record_type, ttl, value) ==
    [Action |-> action,
     ResourceRecordSet |->
        [Name |-> name,
         Type |-> record_type,
         TTL |-> ttl,
         ResourceRecords |-> << [Value |-> value] >>]]

\* _set_base_changes reading the value with exit_on_missing=False.
set_base_changes_ValueOptional(e, skeleton) ==
    LET action == get_env(e, K_ACTION, TRUE)
        name == get_env(e, K_NAME, TRUE)
        record_type == get_env(e, K_TYPE, TRUE)
        ttl_str == get_env(e, K_TTL, FALSE)
        value == get_env(e, K_VALUE, FALSE)
    IN IF ~action.ok THEN action
       ELSE IF ~validate_action(action.val).ok
            THEN validate_action(action.val)
       ELSE IF ~name.ok THEN name
       ELSE IF ~record_type.ok THEN record_type
       ELSE IF ~validate_record_type(record_type.val).ok
            THEN validate_record_type(record_type.val)
       ELSE IF ~validate_ttl(ttl_str.val).ok
            THEN validate_ttl(ttl_str.val)
       ELSE Return(DictSet(skeleton, "Changes",
                << ChangeEntry(action.val, name.val, record_type.val,
                               validate_ttl(ttl_str.val).val, value.val) >>))

\* _set_base_changes: Return(the skeleton it leaves) or the exception of the
\* first statement that raises, in the order of the statements.
set_base_changes(e, skeleton) ==
    LET action == get_env(e, K_ACTION, TRUE)
        name == get_env(e, K_NAME, TRUE)
        record_type == get_env(e, K_TYPE, TRUE)
        ttl_str == get_env(e, K_TTL, FALSE)
        value == get_env(e, K_VALUE, TRUE)
    IN IF ~action.ok THEN action
       ELSE IF ~validate_action(action.val).ok
            THEN validate_action(action.val)
       ELSE IF ~name.ok THEN name
       ELSE IF ~record_type.ok THEN record_type
       ELSE IF ~validate_record_type(record_type.val).ok
            THEN validate_record_type(record_type.val)
       ELSE IF ~validate_ttl(ttl_str.val).ok
            THEN validate_ttl(ttl_str.val)
       ELSE IF ~value.ok THEN value
       ELSE Return(DictSet(skeleton, "Changes",
                << ChangeEntry(action.val, name.val, record_type.val,
                               validate_ttl(ttl_str.val).val, value.val) >>))

\* _wait calling the waiter for every non-empty WAIT.
WaitRequested_Truthy(wait_str) == ~Falsy(wait_str)

\* The condition of _wait under which the waiter is called.
WaitRequested(wait_str) ==
    ~Falsy(wait_str) /\ Lower(wait_str) \in {S_true, S_1, S_yes}

\* _wait passing the delay as MaxAttempts and the attempts as Delay.
WaiterConfig_Swapped ==
    [Delay |-> DEFAULT_WAITER_MAX_ATTEMPTS, MaxAttempts |-> DEFAULT_WAITER_DELAY]

\* The WaiterConfig that _wait passes to the waiter.
WaiterConfig ==
    [Delay |-> DEFAULT_WAITER_DELAY, MaxAttempts |-> DEFAULT_WAITER_MAX_ATTEMPTS]

\* d.get(key, {}) in place of d[key]: a missing key gives an empty dict.
Subscript_Get(d, key) ==
    IF key \in DOMAIN d THEN Return(d[key]) ELSE Return(EmptyDict)

\* d[key] on a dict: KeyError when the key is missing.
Subscript(d, key) ==
    IF key \in DOMAIN d THEN Return(d[key]) ELSE Raise("KeyError")

obtain_request_id(res) ==
    LET info == Subscript(res, "ChangeInfo")
    IN IF ~info.ok THEN info ELSE Subscript(info.val, "Id")

\* json.dumps(value, indent=4): the text is kept as the value it renders and
\* the indentation it is rendered with.
JsonDumps(value, indent) == [json |-> value, indent |-> indent]

obtain_marshalled_result(res) ==
    LET meta == Subscript(res, "ResponseMetadata")
    IN IF ~meta.ok THEN meta ELSE Return(JsonDumps(meta.val, 4))

---------------------------------------------------------------------------
(* The except clause of change() *)

\* The exit status that change() ends the process with on an exception.
FailureExitStatus == 1

\* The line change() writes to sys.stderr for an exception of class cls.
ErrorLine(cls) == <<"Route 53 record set change failed: ", cls, "\n">>

\* The except clause writing the message and leaving with status 0.
Except_ExitZero(cls) ==
    /\ raised' = cls
    /\ stderr' = Append(stderr, ErrorLine(cls))
    /\ exit_status' = 0
    /\ pc' = "exited"

\* except Exception as e: write the message, sys.exit(1).
Except(cls) ==
    /\ raised' = cls
    /\ stderr' = Append(stderr, ErrorLine(cls))
    /\ exit_status' = FailureExitStatus
    /\ pc' = "exited"

NoExcept == UNCHANGED <<raised, stderr, exit_status>>

---------------------------------------------------------------------------
(* The remote service and the library around it *)

\* How boto3.client and client.get_waiter can end.
ConnectOutcomes == {"ok", "client_raises", "get_waiter_raises"}

\* boto3.client("route53") and its waiter "resource_record_sets_changed".
Route53Client == [service |-> "route53"]
ChangedWaiter == [waiter |-> "resource_record_sets_changed"]

S_change_id == <<"/","c","h","a","n","g","e","/","C","1">>

ResponseMetadata == [RequestId |-> "r-1", HTTPStatusCode |-> 200]

ChangeInfo == [Id |-> S_change_id, Status |-> "PENDING"]

\* The responses change_resource_record_sets can return: the documented
\* shape, and shapes that lack a field the code subscripts.
Responses ==
    { [ChangeInfo |-> ChangeInfo, ResponseMetadata |-> ResponseMetadata],
      [ResponseMetadata |-> ResponseMetadata],
      [ChangeInfo |-> [Status |-> "PENDING"],
       ResponseMetadata |-> ResponseMetadata],
      [ChangeInfo |-> ChangeInfo] }

\* The exceptions change_resource_record_sets can raise: the ClientError the
\* code names, and an error of the transport that is no ClientError.
SubmitErrors == {"ClientError", "EndpointConnectionError"}

\* How a call of change_resource_record_sets can end.
SubmitOutcomes ==
    {Raise(e) : e \in SubmitErrors} \cup {Return(r) : r \in Responses}

\* The status a lookup of the change can report.
Statuses == {"PENDING", "INSYNC"}

---------------------------------------------------------------------------
(* The configurations the model runs on *)

S_lower_create == <<"c","r","e","a","t","e">>
S_name == <<"a",".","i","o">>
S_lower_a == <<"a">>
S_ALIAS == <<"A","L","I","A","S">>
S_0 == <<"0">>
S_60 == <<"6","0">>
S_minus_1 == <<"-","1">>
S_x == <<"x">>
S_value == <<"1",".","2",".","3",".","4">>
S_comment == <<"h","i">>
S_zone == <<"Z","1">>
S_Yes == <<"Y","e","s">>
S_false == <<"f","a","l","s","e">>
S_sp_true == <<" ","t","r","u","e">>

ActionValues == {None, S_lower_create} \cup SUPPORTED_ACTIONS
NameValues == {None, S_name}
TypeValues == {None, S_lower_a, S_ALIAS} \cup SUPPORTED_RECORD_TYPES
TtlValues == {None, S_0, S_60, S_minus_1, S_x}
ValueValues == {None, S_value}
CommentValues == {None, <<>>, S_comment}
ZoneValues == {None, <<>>, S_zone}
WaitValues == {None, <<>>, S_true, S_Yes, S_1, S_false, S_sp_true}

Environments ==
    { (K_ACTION :> a) @@ (K_NAME :> n) @@ (K_TYPE :> t) @@ (K_TTL :> l)
      @@ (K_VALUE :> v) @@ (K_COMMENT :> c) @@ (K_ZONE :> z) @@ (K_WAIT :> w) :
        a \in ActionValues, n \in NameValues, t \in TypeValues,
        l \in TtlValues, v \in ValueValues, c \in CommentValues,
        z \in ZoneValues, w \in WaitValues }

---------------------------------------------------------------------------
(* main(): construct the orchestrator and call change() *)

Init ==
    /\ env \in Environments
    /\ pc = "connect"
    /\ client = NoneObject
    /\ waiter = NoneObject
    /\ rr_skeleton = EmptyDict
    /\ result = NoneObject
    /\ request_id = None
    /\ calls = <<>>
    /\ polls = 0
    /\ observed = <<>>
    /\ slept = 0
    /\ stdout = <<>>
    /\ stderr = <<>>
    /\ exit_status = None
    /\ raised = ""
    /\ arg = None
    /\ ret = NoneObject
    /\ connects = 0
    /\ client_calls = <<>>

\* _connect without `if not self.client`: a client is made at every call.
connect_NoCache(c, w, outcome) ==
    [client |-> IF outcome = "client_raises" THEN NoneObject ELSE Route53Client,
     waiter |-> IF outcome = "ok" THEN ChangedWaiter ELSE NoneObject,
     exc |-> IF outcome = "ok" THEN "" ELSE "Exception",
     made |-> <<outcome>>]

\* _connect logging the exception and not raising it again.
connect_Swallowed(c, w, outcome) ==
    IF c # NoneObject
    THEN [client |-> c, waiter |-> w, exc |-> "", made |-> <<>>]
    ELSE [client |-> IF outcome = "client_raises"
                     THEN NoneObject ELSE Route53Client,
          waiter |-> IF outcome = "ok" THEN ChangedWaiter ELSE NoneObject,
          exc |-> "",
          made |-> <<outcome>>]

\* _connect on an orchestrator whose client is c and whose waiter is w, when
\* boto3.client and get_waiter end as outcome says: the client and the waiter
\* it leaves, the exception it raises ("" for none) and the boto3.client
\* calls it made.
connect(c, w, outcome) ==
    IF c # NoneObject
    THEN [client |-> c, waiter |-> w, exc |-> "", made |-> <<>>]
    ELSE [client |-> IF outcome = "client_raises"
                     THEN NoneObject ELSE Route53Client,
          waiter |-> IF outcome = "ok" THEN ChangedWaiter ELSE NoneObject,
          exc |-> IF outcome = "ok" THEN "" ELSE "Exception",
          made |-> <<outcome>>]

\* self._connect()
Connect ==
    /\ pc = "connect"
    /\ \E outcome \in ConnectOutcomes :
          LET done == connect(client, waiter, outcome)
          IN /\ client' = done.client
             /\ waiter' = done.waiter
             /\ connects' = connects + 1
             /\ client_calls' = client_calls \o done.made
             /\ IF done.exc = ""
                THEN pc' = "set_comment" /\ NoExcept
                ELSE Except(done.exc)
    /\ UNCHANGED <<env, rr_skeleton, result, request_id, calls, polls,
                   observed, slept, stdout, arg, ret>>

\* self._build_record_set(), first statement: self._set_comment()
SetComment ==
    /\ pc = "set_comment"
    /\ rr_skeleton' = set_comment(env, rr_skeleton)
    /\ pc' = "set_base_changes"
    /\ NoExcept
    /\ UNCHANGED <<env, client, waiter, result, request_id, calls, polls,
                   observed, slept, stdout, arg, ret,
                   connects, client_calls>>

\* self._build_record_set(), second statement: self._set_base_changes()
SetBaseChanges ==
    /\ pc = "set_base_changes"
    /\ LET built == set_base_changes(env, rr_skeleton)
       IN IF built.ok
          THEN /\ rr_skeleton' = built.val
               /\ pc' = "change_record_set"
               /\ NoExcept
          ELSE /\ UNCHANGED rr_skeleton
               /\ Except(built.exc)
    /\ UNCHANGED <<env, client, waiter, result, request_id, calls, polls,
                   observed, slept, stdout, arg, ret,
                   connects, client_calls>>

\* _change_record_set when change_resource_record_sets raises: a ClientError
\* is logged and raised again, any other exception passes through; change()
\* catches it.
SubmitFailed_Swallowed(exc) ==
    /\ pc' = "wait"
    /\ NoExcept
    /\ UNCHANGED result

\* _change_record_set calling change_resource_record_sets again after an
\* exception.
SubmitFailed_Retried(exc) ==
    /\ pc' = "change_record_set"
    /\ NoExcept
    /\ UNCHANGED result

SubmitFailed(exc) ==
    /\ Except(exc)
    /\ UNCHANGED result

\* result = self._change_record_set(record_set)
ChangeRecordSet ==
    /\ pc = "change_record_set"
    /\ LET hosted_zone_id == get_env(env, K_ZONE, TRUE)
       IN IF ~hosted_zone_id.ok
          THEN /\ Except(hosted_zone_id.exc)
               /\ UNCHANGED <<calls, result>>
          ELSE /\ calls' = Append(calls, [HostedZoneId |-> hosted_zone_id.val,
                                          ChangeBatch |-> rr_skeleton])
               /\ \E outcome \in SubmitOutcomes :
                     IF ~outcome.ok
                     THEN SubmitFailed(outcome.exc)
                     ELSE /\ result' = outcome.val
                          /\ pc' = "obtain_request_id"
                          /\ NoExcept
    /\ UNCHANGED <<env, client, waiter, rr_skeleton, request_id, polls,
                   observed, slept, stdout, arg, ret,
                   connects, client_calls>>

\* request_id = self._obtain_request_id(result)
ObtainRequestId ==
    /\ pc = "obtain_request_id"
    /\ LET id == obtain_request_id(result)
       IN IF id.ok
          THEN /\ request_id' = id.val
               /\ pc' = "wait"
               /\ NoExcept
          ELSE /\ UNCHANGED request_id
               /\ Except(id.exc)
    /\ UNCHANGED <<env, client, waiter, rr_skeleton, result, calls, polls,
                   observed, slept, stdout, arg, ret,
                   connects, client_calls>>

\* _wait returning without calling the waiter.
Wait_Skipped ==
    /\ pc = "wait"
    /\ pc' = "report"
    /\ NoExcept
    /\ UNCHANGED <<env, client, waiter, rr_skeleton, result, request_id,
                   calls, polls, observed, slept, stdout, arg, ret,
                   connects, client_calls>>

\* self._wait(request_id), up to the call of self.waiter.wait
Wait ==
    /\ pc = "wait"
    /\ LET wait_str == get_env(env, K_WAIT, FALSE).val
       IN pc' = IF WaitRequested(wait_str) THEN "waiter.wait" ELSE "report"
    /\ NoExcept
    /\ UNCHANGED <<env, client, waiter, rr_skeleton, result, request_id,
                   calls, polls, observed, slept, stdout, arg, ret,
                   connects, client_calls>>

\* One attempt of self.waiter.wait: look the change up; return on INSYNC,
\* raise WaiterError when the attempts are used up, else sleep and go on.
Poll ==
    /\ pc = "waiter.wait"
    /\ \E status \in Statuses :
          /\ polls' = polls + 1
          /\ observed' = Append(observed, status)
          /\ IF status = "INSYNC"
             THEN pc' = "report" /\ NoExcept /\ UNCHANGED slept
             ELSE IF polls + 1 >= WaiterConfig.MaxAttempts
                  THEN Except("WaiterError") /\ UNCHANGED slept
                  ELSE /\ slept' = slept + WaiterConfig.Delay
                       /\ pc' = "waiter.wait"
                       /\ NoExcept
    /\ UNCHANGED <<env, client, waiter, rr_skeleton, result, request_id,
                   calls, stdout, arg, ret,
                   connects, client_calls>>

\* output = self._obtain_marshalled_result(result); sys.stdout.write; and
\* the return of change() and main(), which ends the process with status 0.
Report ==
    /\ pc = "report"
    /\ LET output == obtain_marshalled_result(result)
       IN IF output.ok
          THEN /\ stdout' = Append(stdout, <<output.val, "\n">>)
               /\ exit_status' = 0
               /\ pc' = "exited"
               /\ UNCHANGED <<raised, stderr>>
          ELSE /\ UNCHANGED stdout
               /\ Except(output.exc)
    /\ UNCHANGED <<env, client, waiter, rr_skeleton, result, request_id,
                   calls, polls, observed, slept, arg, ret,
                   connects, client_calls>>

Next ==
    \/ Connect
    \/ SetComment
    \/ SetBaseChanges
    \/ ChangeRecordSet
    \/ ObtainRequestId
    \/ Wait
    \/ Poll
    \/ Report

Spec == Init /\ [][Next]_vars

---------------------------------------------------------------------------
(* _validate_ttl called on its own, on every short string over the
   characters an integer literal is made of and on the strings around the
   upper limit *)

MaxTtlLen == 3

TtlAlphabet == {"0", "1", "7", "9", "-", "+", " ", "_", "x"}

S_max_ttl == <<"2","1","4","7","4","8","3","6","4","7">>
S_max_ttl_plus_1 == <<"2","1","4","7","4","8","3","6","4","8">>

TtlArguments ==
    UNION {[1..n -> TtlAlphabet] : n \in 0..MaxTtlLen}
    \cup {None, S_max_ttl, S_max_ttl_plus_1,
          <<"0">> \o S_max_ttl, <<"+">> \o S_max_ttl, <<"-">> \o S_max_ttl,
          <<" ">> \o S_max_ttl \o <<" ">>,
          <<"2","_","1","4","7","_","4","8","3","_","6","4","7">>,
          <<"2","1","4","7","4","8","3","6","4","6">>,
          <<"2","1","4","7","4","8","3","7","0","0">>,
          <<"3","0","0","0","0","0","0","0","0","0">>,
          <<"1","0","0","0","0","0","0","0","0","0">>,
          S_max_ttl \o <<"0">>,
          <<"3","0","0">>, <<"8","6","4","0","0">>,
          <<"1","e","3">>, <<"1",".","5">>, <<"0","x","1","0">>}

InitTtl ==
    /\ arg \in TtlArguments
    /\ ret = NoneObject
    /\ connects = 0
    /\ client_calls = <<>>
    /\ pc = "validate_ttl"
    /\ env = [k \in EnvKeys |-> None]
    /\ client = NoneObject
    /\ waiter = NoneObject
    /\ rr_skeleton = EmptyDict
    /\ result = NoneObject
    /\ request_id = None
    /\ calls = <<>>
    /\ polls = 0
    /\ observed = <<>>
    /\ slept = 0
    /\ stdout = <<>>
    /\ stderr = <<>>
    /\ exit_status = None
    /\ raised = ""

\* ttl = self._validate_ttl(ttl_str)
ValidateTtl ==
    /\ pc = "validate_ttl"
    /\ ret' = validate_ttl(arg)
    /\ pc' = "returned"
    /\ UNCHANGED <<env, client, waiter, rr_skeleton, result, request_id,
                   calls, polls, observed, slept, stdout, stderr,
                   exit_status, raised, arg,
                   connects, client_calls>>

NextTtl == ValidateTtl

SpecTtl == InitTtl /\ [][NextTtl]_vars

---------------------------------------------------------------------------
(* _connect called repeatedly on one orchestrator; an exception it raises
   goes to the caller, who may call again *)

MaxConnectCalls == 12

InitConnect ==
    /\ pc = "_connect"
    /\ arg = None
    /\ ret = NoneObject
    /\ env = [k \in EnvKeys |-> None]
    /\ client = NoneObject
    /\ waiter = NoneObject
    /\ rr_skeleton = EmptyDict
    /\ result = NoneObject
    /\ request_id = None
    /\ calls = <<>>
    /\ polls = 0
    /\ observed = <<>>
    /\ slept = 0
    /\ stdout = <<>>
    /\ stderr = <<>>
    /\ exit_status = None
    /\ raised = ""
    /\ connects = 0
    /\ client_calls = <<>>

\* self._connect()
ConnectCall ==
    /\ pc = "_connect"
    /\ connects < MaxConnectCalls
    /\ \E outcome \in ConnectOutcomes :
          LET done == connect(client, waiter, outcome)
          IN /\ client' = done.client
             /\ waiter' = done.waiter
             /\ connects' = connects + 1
             /\ client_calls' = client_calls \o done.made
             /\ ret' = IF done.exc = "" THEN Return(None) ELSE Raise(done.exc)
    /\ UNCHANGED <<env, pc, rr_skeleton, result, request_id, calls, polls,
                   observed, slept, stdout, stderr, exit_status, raised, arg>>

NextConnect == ConnectCall

SpecConnect == InitConnect /\ [][NextConnect]_vars

---------------------------------------------------------------------------
(* Properties *)

\* The remote change call was made and raised: it was received remotely and
\* change() holds no response.
SubmissionFailed == calls # <<>> /\ result = NoneObject /\ pc # "change_record_set"

\* C1: in an invocation whose remote change call fails the waiter is never
\* called: no lookup of the change status is made, whatever WAIT is, and the
\* invocation ends with a non-zero exit status.
C1_NoWaitAfterFailedSubmission ==
    SubmissionFailed =>
        /\ polls = 0
        /\ observed = <<>>
        /\ pc = "exited"
        /\ exit_status # 0

C1_Witness ==
    /\ SubmissionFailed
    /\ raised = "ClientError"
    /\ env[K_WAIT] = S_true
    /\ pc = "exited"

\* Two characters are the same letter up to case.
C2_SameLetter(a, b) ==
    a = b \/ \E i \in 1..26 : {a, b} = {UpperLetters[i], LowerLetters[i]}

\* WAIT asks for the wait: it is "true", "1" or "yes" in any letter case.
C2_WaitAsked(w) ==
    /\ w # None
    /\ \E t \in { <<"t","r","u","e">>, <<"1">>, <<"y","e","s">> } :
          /\ Len(w) = Len(t)
          /\ \A i \in 1..Len(t) : C2_SameLetter(w[i], t[i])

\* The response has the documented shape.
C2_WellFormed(r) ==
    /\ r # NoneObject
    /\ DOMAIN r = {"ChangeInfo", "ResponseMetadata"}
    /\ "Id" \in DOMAIN r.ChangeInfo

\* C2: when WAIT does not ask for the wait (unset, empty, or not "true", "1"
\* or "yes" once lower-cased), a submission answered by a well-formed response
\* ends with exit status 0 and no lookup of the status is ever made; a lookup
\* is made only when WAIT asks for the wait.
C2_NoPollUnlessWaitAsked ==
    /\ (polls > 0 \/ observed # <<>> \/ pc = "waiter.wait")
          => C2_WaitAsked(env[K_WAIT])
    /\ (~C2_WaitAsked(env[K_WAIT]) /\ C2_WellFormed(result) /\ pc = "exited")
          => exit_status = 0 /\ polls = 0 /\ observed = <<>>

C2_Witness ==
    /\ env[K_WAIT] = S_false
    /\ C2_WellFormed(result)
    /\ pc = "exited"
    /\ exit_status = 0
    /\ polls = 0

\* n times PENDING.
C3_Pending(n) == [i \in 1..n |-> "PENDING"]

\* The waiter has returned to _wait.
C3_WaiterReturned == polls > 0 /\ pc # "waiter.wait" /\ raised # "WaiterError"

\* C3: with the wait asked for, the waiter ends on every sequence of statuses.
\* Each attempt is one lookup; after k times PENDING and then INSYNC, with
\* k + 1 <= 50, it has returned after exactly k + 1 lookups (4 lookups for
\* three times PENDING and then INSYNC); when INSYNC is not seen within 50
\* attempts it stops with WaiterError after 50 lookups and never makes a 51st.
C3_WaiterInv ==
    /\ polls = Len(observed)
    /\ polls <= 50
    /\ pc = "waiter.wait" => polls < 50 /\ observed = C3_Pending(polls)
    /\ C3_WaiterReturned =>
          observed = C3_Pending(polls - 1) \o <<"INSYNC">>
    /\ raised = "WaiterError" =>
          pc = "exited" /\ polls = 50 /\ observed = C3_Pending(50)
    /\ \A k \in 0..49 :
          (Len(observed) = k + 1 /\ observed = C3_Pending(k) \o <<"INSYNC">>)
              => polls = k + 1 /\ C3_WaiterReturned
    /\ observed = <<"PENDING", "PENDING", "PENDING", "INSYNC">> =>
          polls = 4 /\ C3_WaiterReturned

\* Each step of the waiter is one more attempt and one more lookup, so the
\* waiter leaves its loop within 50 steps.
C3_WaiterStep ==
    (pc = "waiter.wait") =>
        /\ polls' = polls + 1
        /\ Len(observed') = Len(observed) + 1
        /\ pc' = "waiter.wait" => polls' < 50

C3_WaiterTerminates == []C3_WaiterInv /\ [][C3_WaiterStep]_vars

C3_Witness ==
    /\ observed = <<"PENDING", "PENDING", "PENDING", "INSYNC">>
    /\ polls = 4
    /\ pc = "exited"
    /\ exit_status = 0

C3_WitnessTimeout ==
    /\ raised = "WaiterError"
    /\ polls = 50


\* The exit statuses with which change() reports a rejected submission.
C4_SubmissionFailureStatuses == {FailureExitStatus}

\* C4: the outcome the caller gets when the change was accepted but the wait
\* used up its attempts is of another kind than the outcome it gets when the
\* submission failed: the exit status of a timed-out wait is none of the exit
\* statuses of a rejected submission.
C4_TimeoutHasItsOwnKind ==
    (pc = "exited" /\ raised = "WaiterError") =>
        exit_status \notin C4_SubmissionFailureStatuses

\* Some stage of the invocation failed, told from what the stages left behind.
C5_ConnectionFailed == client = NoneObject \/ waiter = NoneObject
C5_BuildFailed == "Changes" \notin DOMAIN rr_skeleton
C5_SubmissionFailed == calls = <<>> \/ result = NoneObject
C5_ExtractionFailed == ~C2_WellFormed(result)
C5_WaitFailed ==
    C2_WaitAsked(env[K_WAIT]) /\
        (observed = <<>> \/ observed[Len(observed)] # "INSYNC")

C5_SomeStageFailed ==
    \/ C5_ConnectionFailed
    \/ C5_BuildFailed
    \/ C5_SubmissionFailed
    \/ C5_ExtractionFailed
    \/ C5_WaitFailed

\* C5: an invocation in which every stage succeeded writes the response
\* metadata to standard output and ends with exit status 0; an invocation in
\* which any stage failed (connection, missing field, validation, submission,
\* extraction, wait) writes one error line to standard error and ends with a
\* non-zero exit status. The success output never comes with a non-zero exit
\* status and no failure ends with exit status 0.
C5_ExitReportsOutcome ==
    /\ pc # "exited" => stdout = <<>> /\ stderr = <<>>
    /\ pc = "exited" =>
          IF C5_SomeStageFailed
          THEN /\ exit_status # 0
               /\ raised # ""
               /\ Len(stderr) = 1
               /\ stdout = <<>>
          ELSE /\ exit_status = 0
               /\ raised = ""
               /\ stderr = <<>>
               /\ Len(stdout) = 1
               /\ stdout[1][1].json = result.ResponseMetadata

C5_Witness ==
    /\ pc = "exited"
    /\ raised = "KeyError"
    /\ observed # <<>>
    /\ exit_status = 1
    /\ stdout = <<>>

C5_WitnessSuccess ==
    /\ pc = "exited"
    /\ exit_status = 0
    /\ observed # <<>>
    /\ stdout # <<>>

\* The decimal digits, as characters, in their order.
C6_DigitChars == <<"0","1","2","3","4","5","6","7","8","9">>
C6_Digit(c) == \E i \in 1..10 : C6_DigitChars[i] = c
C6_Ord(c) == CHOOSE n \in 0..9 : C6_DigitChars[n + 1] = c

\* s is an integer literal: spaces, an optional sign, then digits with single
\* underscores between digits, then spaces.
C6_IsLiteral(s) ==
    \E i, j \in 1..Len(s) :
        /\ i <= j
        /\ \A k \in 1..Len(s) : (k < i \/ k > j) => s[k] = " "
        /\ LET b == IF s[i] \in {"+", "-"} THEN i + 1 ELSE i
           IN /\ b <= j
              /\ C6_Digit(s[b])
              /\ C6_Digit(s[j])
              /\ \A k \in b..j :
                    \/ C6_Digit(s[k])
                    \/ /\ s[k] = "_"
                       /\ b < k /\ k < j
                       /\ C6_Digit(s[k - 1]) /\ C6_Digit(s[k + 1])

\* The digits of the literal from its first non-zero digit on.
C6_Significant(s) ==
    LET d == SelectSeq(s, C6_Digit)
        nz == {k \in 1..Len(d) : d[k] # "0"}
    IN IF nz = {} THEN <<>>
       ELSE SubSeq(d, CHOOSE k \in nz : \A l \in nz : k <= l, Len(d))

\* The decimal numeral of n, empty for 0.
RECURSIVE C6_Numeral(_)
C6_Numeral(n) ==
    IF n = 0 THEN <<>>
    ELSE C6_Numeral(n \div 10) \o <<C6_DigitChars[(n % 10) + 1]>>

\* The literal stands for a number in [0, 2147483647].
C6_InRange(s) ==
    LET g == C6_Significant(s)
        m == C6_Numeral(2147483647)
    IN /\ (\E k \in 1..Len(s) : s[k] = "-") => g = <<>>
       /\ \/ Len(g) < Len(m)
          \/ /\ Len(g) = Len(m)
             /\ \/ g = m
                \/ \E k \in 1..Len(m) :
                      /\ \A l \in 1..(k - 1) : g[l] = m[l]
                      /\ C6_Ord(g[k]) < C6_Ord(m[k])

\* C6: _validate_ttl returns the integer n of every TTL string that is an
\* integer literal with 0 <= n <= 2147483647, unchanged ("0" gives 0, not the
\* default); it returns 300 for an empty or unset TTL; every other string,
\* no literal or a literal below 0 or above 2147483647, fails with ValueError.
C6_ValidateTtl ==
    pc = "returned" =>
        /\ Falsy(arg) => ret = Return(300)
        /\ arg = <<"0">> => ret = Return(0)
        /\ (~Falsy(arg) /\ C6_IsLiteral(arg) /\ C6_InRange(arg)) =>
              /\ ret.ok
              /\ ret.val \in 0..2147483647
              /\ C6_Numeral(ret.val) = C6_Significant(arg)
        /\ (~Falsy(arg) /\ ~(C6_IsLiteral(arg) /\ C6_InRange(arg))) =>
              ret = Raise("ValueError")

C6_Witness ==
    /\ pc = "returned"
    /\ arg = <<"2","1","4","7","4","8","3","6","4","7">>
    /\ ret = Return(2147483647)

C6_WitnessTooLarge ==
    /\ pc = "returned"
    /\ arg = <<"2","1","4","7","4","8","3","6","4","8">>
    /\ ret = Raise("ValueError")


\* The actions and record types a request may be built for.
C7_Actions ==
    { <<"C","R","E","A","T","E">>, <<"D","E","L","E","T","E">>,
      <<"U","P","S","E","R","T">> }
C7_Types ==
    { <<"S","O","A">>, <<"A">>, <<"T","X","T">>, <<"N","S">>,
      <<"C","N","A","M","E">>, <<"M","X">>, <<"P","T","R">>, <<"S","R","V">>,
      <<"S","P","F">>, <<"A","A","A","A">> }

\* The connection was made and _set_base_changes has run.
BuildRan ==
    /\ client # NoneObject
    /\ waiter # NoneObject
    /\ pc \notin {"connect", "set_comment", "set_base_changes"}

\* The configured TTL is given and is no integer literal in [0, 2147483647].
C7_TtlInvalid ==
    /\ ~Falsy(env[K_TTL])
    /\ ~(C6_IsLiteral(env[K_TTL]) /\ C6_InRange(env[K_TTL]))

\* C7: a change request is built only if the action is one of CREATE, DELETE,
\* UPSERT and the record type one of the ten supported types: the two
\* validators accept exactly the members of their sets, every other value
\* given fails with ValueError, and then no "Changes" entry is built and no
\* request is submitted.
C7_BuiltOnlyIfValid ==
    /\ ("Changes" \in DOMAIN rr_skeleton \/ calls # <<>>) =>
          env[K_ACTION] \in C7_Actions /\ env[K_TYPE] \in C7_Types
    /\ (BuildRan /\ ~Falsy(env[K_ACTION]) /\ env[K_ACTION] \notin C7_Actions) =>
          /\ pc = "exited" /\ raised = "ValueError"
          /\ "Changes" \notin DOMAIN rr_skeleton /\ calls = <<>>
    /\ (BuildRan /\ env[K_ACTION] \in C7_Actions /\ ~Falsy(env[K_NAME])
          /\ ~Falsy(env[K_TYPE]) /\ env[K_TYPE] \notin C7_Types) =>
          /\ pc = "exited" /\ raised = "ValueError"
          /\ "Changes" \notin DOMAIN rr_skeleton /\ calls = <<>>
    /\ (BuildRan /\ env[K_ACTION] \in C7_Actions /\ ~Falsy(env[K_NAME])
          /\ env[K_TYPE] \in C7_Types /\ ~C7_TtlInvalid
          /\ ~Falsy(env[K_VALUE])) =>
          "Changes" \in DOMAIN rr_skeleton

C7_Witness ==
    /\ BuildRan
    /\ env[K_ACTION] = <<"U","P","S","E","R","T">>
    /\ env[K_TYPE] = <<"a">>
    /\ ~Falsy(env[K_NAME])
    /\ raised = "ValueError"
    /\ calls = <<>>

\* A required field of the request is missing from the configuration.
C8_FieldMissing ==
    \E k \in {K_ACTION, K_NAME, K_TYPE, K_VALUE} : Falsy(env[k])

\* C8 as claimed: a configuration with a missing required field (action,
\* name, record type or value) fails with NameError, never with the
\* ValueError of an invalid action, type or TTL.
C8_MissingFieldIsNameError ==
    (BuildRan /\ C8_FieldMissing) => raised = "NameError"

\* The first check of _set_base_changes that the configuration fails, in the
\* order of its statements; "" when it passes them all.
C8_FirstFailure ==
    IF Falsy(env[K_ACTION]) THEN "NameError"
    ELSE IF env[K_ACTION] \notin C7_Actions THEN "ValueError"
    ELSE IF Falsy(env[K_NAME]) THEN "NameError"
    ELSE IF Falsy(env[K_TYPE]) THEN "NameError"
    ELSE IF env[K_TYPE] \notin C7_Types THEN "ValueError"
    ELSE IF C7_TtlInvalid THEN "ValueError"
    ELSE IF Falsy(env[K_VALUE]) THEN "NameError"
    ELSE ""

\* C8, amended: a missing required field fails with NameError, another class
\* than the ValueError of a field that is given but invalid, and the class
\* reported is that of the first check that fails, in the order action given,
\* action valid, name given, type given, type valid, TTL valid, value given.
\* A configuration with a missing required field is reported as ValueError
\* exactly when a field checked before the missing one is given but invalid.
C8_FirstFailureIsReported ==
    BuildRan =>
        /\ C8_FirstFailure # "" =>
              /\ pc = "exited"
              /\ raised = C8_FirstFailure
              /\ stderr = << ErrorLine(C8_FirstFailure) >>
        /\ C8_FirstFailure = "" => "Changes" \in DOMAIN rr_skeleton
        /\ (C8_FieldMissing /\ raised = "ValueError") =>
              \/ (~Falsy(env[K_ACTION]) /\ env[K_ACTION] \notin C7_Actions)
              \/ (~Falsy(env[K_TYPE]) /\ env[K_TYPE] \notin C7_Types)
              \/ C7_TtlInvalid

C8_Witness ==
    /\ BuildRan
    /\ env[K_ACTION] = <<"c","r","e","a","t","e">>
    /\ env[K_NAME] = None
    /\ raised = "ValueError"

C8_WitnessMissing ==
    /\ BuildRan
    /\ env[K_ACTION] \in C7_Actions
    /\ env[K_NAME] = None
    /\ env[K_TYPE] = <<"a">>
    /\ raised = "NameError"

\* The TTL a configuration's TTL string stands for.
C9_Ttl(ttl_str) ==
    CASE ttl_str = None -> 300
      [] ttl_str = <<"0">> -> 0
      [] ttl_str = <<"6","0">> -> 60

\* C9: for every configuration that passes validation the built request has
\* exactly one change entry with exactly one record value; its action, name,
\* type and value are the configured ones and its TTL is the validated TTL,
\* 300 when TTL is unset. The request submitted is that request.
C9_OneChangeAsConfigured ==
    /\ "Changes" \in DOMAIN rr_skeleton =>
          /\ Len(rr_skeleton["Changes"]) = 1
          /\ LET change == rr_skeleton["Changes"][1]
                 rrs == change.ResourceRecordSet
             IN /\ DOMAIN change = {"Action", "ResourceRecordSet"}
                /\ change.Action = env[K_ACTION]
                /\ rrs.Name = env[K_NAME]
                /\ rrs.Type = env[K_TYPE]
                /\ rrs.TTL = C9_Ttl(env[K_TTL])
                /\ Len(rrs.ResourceRecords) = 1
                /\ rrs.ResourceRecords[1] = [Value |-> env[K_VALUE]]
    /\ \A i \in 1..Len(calls) : calls[i].ChangeBatch = rr_skeleton
    /\ (BuildRan /\ C8_FirstFailure = "") => "Changes" \in DOMAIN rr_skeleton

C9_Witness ==
    /\ "Changes" \in DOMAIN rr_skeleton
    /\ env[K_ACTION] = <<"U","P","S","E","R","T">>
    /\ env[K_TYPE] = <<"A">>
    /\ env[K_TTL] = None
    /\ rr_skeleton["Changes"][1].ResourceRecordSet.TTL = 300
    /\ Len(calls) = 1

\* C10: when the comment is unset or empty in the configuration, the batch
\* built and submitted has no "Comment" key at all; when a non-empty comment
\* is configured, the batch carries exactly that comment.
C10_CommentOnlyWhenGiven ==
    /\ pc \notin {"connect", "set_comment"} /\ client # NoneObject
          /\ waiter # NoneObject =>
          IF env[K_COMMENT] = None \/ env[K_COMMENT] = <<>>
          THEN "Comment" \notin DOMAIN rr_skeleton
          ELSE /\ "Comment" \in DOMAIN rr_skeleton
               /\ rr_skeleton["Comment"] = env[K_COMMENT]
    /\ \A i \in 1..Len(calls) :
          IF env[K_COMMENT] = None \/ env[K_COMMENT] = <<>>
          THEN DOMAIN calls[i].ChangeBatch = {"Changes"}
          ELSE /\ DOMAIN calls[i].ChangeBatch = {"Changes", "Comment"}
               /\ calls[i].ChangeBatch["Comment"] = env[K_COMMENT]

C10_Witness ==
    /\ Len(calls) = 1
    /\ env[K_COMMENT] = <<>>
    /\ DOMAIN calls[1].ChangeBatch = {"Changes"}

C10_WitnessGiven ==
    /\ Len(calls) = 1
    /\ env[K_COMMENT] = <<"h","i">>
    /\ calls[1].ChangeBatch["Comment"] = <<"h","i">>


\* The response lacks the change identifier: ChangeInfo, or Id under it.
C11_IdMissing ==
    /\ result # NoneObject
    /\ ("ChangeInfo" \notin DOMAIN result \/ "Id" \notin DOMAIN result.ChangeInfo)

\* The response has the change identifier and lacks ResponseMetadata.
C11_MetadataMissing ==
    /\ result # NoneObject
    /\ ~C11_IdMissing
    /\ "ResponseMetadata" \notin DOMAIN result

\* C11 as claimed: a response that lacks the change identifier or
\* ResponseMetadata ends the invocation with a non-zero exit status and a
\* KeyError, nothing is put in place of the missing field and no success
\* output is written.
C11_MalformedEndsWithKeyError ==
    (pc = "exited" /\ (C11_IdMissing \/ C11_MetadataMissing)) =>
        /\ exit_status # 0
        /\ raised = "KeyError"
        /\ stdout = <<>>

\* C11, amended: a response that lacks the change identifier or
\* ResponseMetadata is fatal: the invocation ends with a non-zero exit status
\* and one error line, nothing is put in place of the missing field and no
\* success output is written. A missing identifier ends it with KeyError
\* before any lookup. A missing ResponseMetadata is found only after the
\* wait: it ends with KeyError, unless the wait was asked for and used up its
\* attempts, which ends it with WaiterError.
C11_MalformedResponseIsFatal ==
    /\ C11_IdMissing =>
          /\ pc \in {"obtain_request_id", "exited"}
          /\ request_id = None
          /\ polls = 0
          /\ pc = "exited" => raised = "KeyError"
    /\ (pc = "exited" /\ (C11_IdMissing \/ C11_MetadataMissing)) =>
          /\ exit_status # 0
          /\ Len(stderr) = 1
          /\ stdout = <<>>
    /\ (pc = "exited" /\ C11_MetadataMissing) =>
          /\ request_id = result.ChangeInfo.Id
          /\ raised \in {"KeyError", "WaiterError"}
          /\ raised = "WaiterError" <=>
                (C2_WaitAsked(env[K_WAIT]) /\ observed = C3_Pending(50))

C11_Witness ==
    /\ pc = "exited"
    /\ C11_MetadataMissing
    /\ raised = "KeyError"
    /\ observed # <<>>
    /\ exit_status = 1

C11_WitnessId ==
    /\ pc = "exited"
    /\ C11_IdMissing
    /\ "ChangeInfo" \in DOMAIN result
    /\ raised = "KeyError"


\* The boto3.client calls that returned a client.
C12_Constructed ==
    {i \in 1..Len(client_calls) : client_calls[i] # "client_raises"}

\* C12: the connection is created once and reused. After any sequence of
\* _connect calls on one orchestrator a client has been constructed at most
\* once, and once the orchestrator holds a client every further call leaves
\* the client and the waiter as they are and constructs nothing.
C12_Inv ==
    /\ Cardinality(C12_Constructed) <= 1
    /\ client # NoneObject <=> C12_Constructed # {}
    /\ Len(client_calls) <= connects

C12_Step ==
    client # NoneObject =>
        /\ client' = client
        /\ waiter' = waiter
        /\ client_calls' = client_calls

C12_ConnectedOnce == []C12_Inv /\ [][C12_Step]_vars

C12_Witness ==
    /\ pc = "_connect"
    /\ connects = 4
    /\ client_calls = <<"client_raises", "ok">>
    /\ client = Route53Client
    /\ waiter = ChangedWaiter


\* C13: in one invocation the change call is issued at most once: it is not
\* issued again after an error of the remote service nor after a success,
\* and the batch passed to it is the built request, which no step changes
\* between the build and the submission or after it.
C13_Inv ==
    /\ Len(calls) <= 1
    /\ \A i \in 1..Len(calls) : calls[i].ChangeBatch = rr_skeleton

C13_Step ==
    /\ calls # <<>> => calls' = calls
    /\ "Changes" \in DOMAIN rr_skeleton => rr_skeleton' = rr_skeleton

C13_SubmittedOnce == []C13_Inv /\ [][C13_Step]_vars

C13_Witness ==
    /\ pc = "exited"
    /\ Len(calls) = 1
    /\ raised = "ClientError"
    /\ calls[1].ChangeBatch = rr_skeleton
    /\ "Comment" \in DOMAIN rr_skeleton

\* The place of a statement of change() in the order of the stages.
C14_Rank(p) ==
    CASE p = "connect" -> 1
      [] p = "set_comment" -> 2
      [] p = "set_base_changes" -> 3
      [] p = "change_record_set" -> 4
      [] p = "obtain_request_id" -> 5
      [] p = "wait" -> 6
      [] p = "waiter.wait" -> 7
      [] p = "report" -> 8
      [] p = "exited" -> 9

\* The configuration passes every check of the build.
C14_Valid ==
    /\ \A k \in {K_ACTION, K_NAME, K_TYPE, K_VALUE} : ~Falsy(env[k])
    /\ env[K_ACTION] \in C7_Actions
    /\ env[K_TYPE] \in C7_Types
    /\ ~C7_TtlInvalid

\* C14: the stages of one invocation run in the order validate, build,
\* submit, wait, report, each only after the one before it succeeded and none
\* twice: the change call is issued only after the action, the type and the
\* TTL were validated and the request was built, the lookups start only after
\* a submission that succeeded, and the success output is written only after
\* the waiter returned when the wait was asked for.
C14_Inv ==
    /\ C14_Rank(pc) \in 4..8 => C14_Valid /\ "Changes" \in DOMAIN rr_skeleton
    /\ C14_Rank(pc) \in 5..8 => Len(calls) = 1 /\ result # NoneObject
    /\ C14_Rank(pc) \in 6..8 => request_id = result.ChangeInfo.Id
    /\ C14_Rank(pc) < 4 => calls = <<>>
    /\ C14_Rank(pc) < 7 => polls = 0
    /\ calls # <<>> => C14_Valid /\ "Changes" \in DOMAIN rr_skeleton
    /\ polls > 0 =>
          /\ Len(calls) = 1
          /\ result # NoneObject
          /\ request_id = result.ChangeInfo.Id
    /\ stdout # <<>> =>
          /\ pc = "exited"
          /\ Len(calls) = 1
          /\ C2_WaitAsked(env[K_WAIT]) =>
                (observed # <<>> /\ observed[Len(observed)] = "INSYNC")

C14_Step ==
    \/ C14_Rank(pc') > C14_Rank(pc)
    \/ pc = "waiter.wait" /\ pc' = "waiter.wait" /\ polls' = polls + 1

C14_StagesInOrder == []C14_Inv /\ [][C14_Step]_vars

C14_Witness ==
    /\ pc = "exited"
    /\ stdout # <<>>
    /\ polls = 2
    /\ Len(calls) = 1

\* C15: when the hosted-zone identifier is unset or empty the invocation
\* fails with a non-zero exit status and the change call is never issued,
\* also when the action, name, type, TTL and value are all valid.
C15_NoZoneNoCall ==
    (env[K_ZONE] = None \/ env[K_ZONE] = <<>>) =>
        /\ calls = <<>>
        /\ result = NoneObject
        /\ polls = 0
        /\ stdout = <<>>
        /\ pc \notin {"obtain_request_id", "wait", "waiter.wait", "report"}
        /\ pc = "exited" => exit_status # 0
        /\ (pc = "exited" /\ BuildRan /\ C14_Valid) => raised = "NameError"

C15_Witness ==
    /\ pc = "exited"
    /\ env[K_ZONE] = <<>>
    /\ C14_Valid
    /\ "Changes" \in DOMAIN rr_skeleton
    /\ raised = "NameError"
    /\ exit_status = 1

\* C16: whenever the submit stage or the wait stage of change() runs, the
\* client and the waiter are initialised: a failure of _connect, making the
\* client or getting the waiter, ends the invocation before any request is
\* built, submitted or looked up.
C16_ConnectedBeforeUse ==
    /\ (C14_Rank(pc) \in 2..8 \/ calls # <<>> \/ polls > 0
          \/ rr_skeleton # EmptyDict) =>
          client = [service |-> "route53"]
              /\ waiter = [waiter |-> "resource_record_sets_changed"]
    /\ (pc # "connect" /\ (client = NoneObject \/ waiter = NoneObject)) =>
          /\ pc = "exited"
          /\ exit_status # 0
          /\ raised = "Exception"
          /\ rr_skeleton = EmptyDict
          /\ calls = <<>>
          /\ polls = 0

C16_Witness ==
    /\ pc = "exited"
    /\ client # NoneObject
    /\ waiter = NoneObject
    /\ raised = "Exception"
    /\ calls = <<>>

\* C17: on a freshly constructed orchestrator a build that fails (a required
\* field missing, the action, the type or the TTL invalid) leaves the
\* skeleton without a "Changes" entry: the skeleton has "Changes" only in
\* states reached after every required-field check and every validation of
\* the build succeeded.
C17_ChangesOnlyAfterChecks ==
    /\ "Changes" \in DOMAIN rr_skeleton => BuildRan /\ C14_Valid
    /\ (BuildRan /\ ~C14_Valid) =>
          /\ pc = "exited"
          /\ raised \in {"NameError", "ValueError"}
          /\ DOMAIN rr_skeleton \subseteq {"Comment"}

C17_Witness ==
    /\ BuildRan
    /\ env[K_ACTION] \in C7_Actions
    /\ env[K_TYPE] \in C7_Types
    /\ ~C7_TtlInvalid
    /\ env[K_VALUE] = None
    /\ raised = "NameError"
    /\ DOMAIN rr_skeleton = {"Comment"}

====
